---- MODULE Spec2Model ----
(***************************************************************************)
(* TwoAdicFriPcs (fri/src/two_adic_pcs.rs): commit_shifted_batches,        *)
(* open_multi_batches and verify_multi_batches, instantiated over the      *)
(* two-adic prime field F_17 (multiplicative group of order 2^4, generator *)
(* 3) with the challenge field FC::Challenge taken to be Val itself (the   *)
(* degree-1 extension), so that every field computation is executable.     *)
(***************************************************************************)
EXTENDS Integers, Sequences, FiniteSets, TLC

\* ------------------------------------------------------------------ bounds
\* Largest number of committed matrices over all rounds of one opening call.
MaxMats == 2
\* Number of query indices the proximity prover returns.
NumQueries == 2
\* Largest log2 of the height of a polynomial batch before extension.
MaxLogDegree == 2
\* Number of distinct tables tried for each shape of a single-matrix call, less one.
MaxSeed == 2

\* --------------------------------------------------------- field layer
\* Val: a prime field with a 2-adic multiplicative group.
Field == [order |-> 17, two_adicity |-> 4, generator |-> 3]

P == Field.order

F == 0 .. (P - 1)

FAdd(a, b) == (a + b) % P

FSub(a, b) == (a + P - b) % P

FNeg(a) == (P - a) % P

FMul(a, b) == (a * b) % P

RECURSIVE FExp(_, _)
FExp(a, n) == IF n = 0 THEN 1 ELSE FMul(a, FExp(a, n - 1))

\* Field::inverse by Fermat's little theorem; try_inverse of zero has no value
\* and is handled where the inversion is called.
InvTable == [a \in F |-> FExp(a, P - 2)]

FInv(a) == InvTable[a]

RECURSIVE FSum(_)
FSum(s) == IF s = <<>> THEN 0 ELSE FAdd(s[1], FSum(Tail(s)))

RECURSIVE FProd(_)
FProd(s) == IF s = <<>> THEN 1 ELSE FMul(s[1], FProd(Tail(s)))

Pow2(n) == 2 ^ n

Max(S) == CHOOSE m \in S : \A x \in S : x <= m

Min2(a, b) == IF a <= b THEN a ELSE b

\* log2_strict_usize: the exponent of an exact power of two.
log2_strict_usize(n) == CHOOSE k \in 0 .. Field.two_adicity : Pow2(k) = n

\* TwoAdicField::two_adic_generator(bits): a generator of the subgroup of
\* order 2^bits, taken as a power of one fixed generator of the full 2-group.
two_adic_generator(bits) ==
    FExp(Field.generator, Pow2(Field.two_adicity - bits))

\* cyclic_subgroup_coset_known_order: shift * gen^i for i = 0 .. order-1.
cyclic_subgroup_coset_known_order(gen, shift, order) ==
    [i \in 1 .. order |-> FMul(shift, FExp(gen, i - 1))]

\* reverse_bits_len: the low `bits` bits of i, reversed.
RECURSIVE reverse_bits_len(_, _)
reverse_bits_len(i, bits) ==
    IF bits = 0 THEN 0
    ELSE (i % 2) * Pow2(bits - 1) + reverse_bits_len(i \div 2, bits - 1)

\* reverse_slice_index_bits: the sequence permuted by bit-reversed index.
reverse_slice_index_bits(s) ==
    [i \in 1 .. Len(s) |->
        s[reverse_bits_len(i - 1, log2_strict_usize(Len(s))) + 1]]

\* Whether batch_multiplicative_inverse is handed a zero.
HasZero(xs) == \E i \in 1 .. Len(xs) : xs[i] = 0

\* batch_multiplicative_inverse by Montgomery's trick: one inversion of the
\* product of all entries, each inverse recovered by multiplication.
batch_multiplicative_inverse(xs) ==
    LET inv_total == FInv(FProd(xs))
    IN  [i \in 1 .. Len(xs) |->
            FMul(inv_total,
                 FProd([j \in 1 .. Len(xs) |-> IF j = i THEN 1 ELSE xs[j]]))]

\* ------------------------------------------------------------- matrices
\* A row-major matrix is the sequence of its rows.
Height(mat) == Len(mat)

Width(mat) == Len(mat[1])

Column(mat, j) == [r \in 1 .. Len(mat) |-> mat[r][j]]

\* BitReversedMatrixView / bit_reverse_rows: row r is row bitrev(r).
BitReversedMatrixView(mat) == reverse_slice_index_bits(mat)

\* split_rows(r).0: the first r rows.
split_rows_first(mat, r) == SubSeq(mat, 1, r)

\* Naive Lagrange interpolation through (xs[i], ys[i]), evaluated at z.
LagrangeEval(xs, ys, z) ==
    FSum([i \in 1 .. Len(xs) |->
        FMul(ys[i],
             FProd([j \in 1 .. Len(xs) |->
                 IF j = i THEN 1
                 ELSE FMul(FSub(z, xs[j]), FInv(FSub(xs[i], xs[j])))]))])

\* TwoAdicSubgroupDft::coset_lde_batch: the columns, given on the subgroup of
\* order height, re-evaluated on the coset shift * (subgroup of order
\* height * 2^added_bits), both in natural order.
coset_lde_batch(input, added_bits, shift) ==
    LET lh == log2_strict_usize(Height(input))
        H == cyclic_subgroup_coset_known_order(
                 two_adic_generator(lh), 1, Height(input))
        D == cyclic_subgroup_coset_known_order(
                 two_adic_generator(lh + added_bits), shift,
                 Pow2(lh + added_bits))
    IN  [r \in 1 .. Len(D) |->
            [j \in 1 .. Width(input) |->
                LagrangeEval(H, Column(input, j), D[r])]]

\* interpolate_coset: barycentric evaluation at `point` of the columns given
\* in natural order on the coset shift * (subgroup of order height).
interpolate_coset(coset_evals, shift, point) ==
    LET height == Height(coset_evals)
        g == cyclic_subgroup_coset_known_order(
                 two_adic_generator(log2_strict_usize(height)), 1, height)
        diffs == [i \in 1 .. height |-> FSub(point, FMul(shift, g[i]))]
        diff_invs == batch_multiplicative_inverse(diffs)
        col_scale == [i \in 1 .. height |-> FMul(g[i], diff_invs[i])]
        zerofier == FSub(FExp(point, height), FExp(shift, height))
        denominator == FMul(height % P, FExp(shift, height - 1))
    IN  [j \in 1 .. Width(coset_evals) |->
            FMul(FSum([i \in 1 .. height |->
                          FMul(col_scale[i], coset_evals[i][j])]),
                 FMul(zerofier, FInv(denominator)))]

\* ------------------------------------------------------- external engines
\* TwoAdicFriPcs::coset_shift: Val::generator().
coset_shift == Field.generator

\* commit_shifted_batches: the bit-reversed coset LDE of every batch; the
\* prover data of the commitment engine is the list of committed matrices.
commit_shifted_batches(polynomials, fri_log_blowup, shift_arg) ==
    LET shift == FMul(coset_shift, FInv(shift_arg))
    IN  [i \in 1 .. Len(polynomials) |->
            BitReversedMatrixView(
                coset_lde_batch(polynomials[i], fri_log_blowup, shift))]

\* commit_batches: commit_shifted_batches with shift one.
commit_batches(polynomials, fri_log_blowup) ==
    commit_shifted_batches(polynomials, fri_log_blowup, 1)

\* DirectMmcs::get_matrices.
get_matrices(data) == data

\* DirectMmcs::open_batch: the row of every matrix of the round at the index
\* scaled down to that matrix's height, with an authentication proof.
open_batch(index, data) ==
    LET max_lh == Max({log2_strict_usize(Height(data[m])) : m \in 1 .. Len(data)})
    IN  [opened_values |->
            [m \in 1 .. Len(data) |->
                data[m][(index \div
                    Pow2(max_lh - log2_strict_usize(Height(data[m])))) + 1]],
         opening_proof |-> [index |-> index, data |-> data]]

\* izip!(mats, points): pairs up to the shorter of the two.
ZipLen(mats, pts) == Min2(Len(mats), Len(pts))

\* Option<T>.
None == <<>>

Some(v) == <<v>>

is_some(o) == Len(o) = 1

\* The length of the reduced_openings and num_reduced arrays.
NumLogHeights == 32

\* get_cached_powers: the cache grown to `count` powers.
RECURSIVE get_cached_powers(_, _, _)
get_cached_powers(power, cache, count) ==
    IF Len(cache) < count
    THEN get_cached_powers(power,
             Append(cache, FMul(cache[Len(cache)], power)), count)
    ELSE cache

\* ---------------------------------------------------------------- inputs
\* A polynomial batch: 2^lk rows, w columns of base-field values.
PolyTable(lk, w, seed) ==
    [r \in 1 .. Pow2(lk) |->
        [c \in 1 .. w |->
            (seed * r * r + (seed + 1) * r * c + 3 * r + 5 * c + seed) % P]]

Widths == {1, 2}

Alphas == {3, 10}

\* Opening points requested for one matrix.  1 and 2 lie outside every coset
\* coset_shift * H; 5 is the element of index 2 of every bit-reversed coset of
\* size at least 4.
PointLists == {<<>>, <<1>>, <<2, 1>>, <<5>>}

\* The shapes of the batches of a multi-matrix call: committed heights 2, 4
\* (one and two columns) and 8 under a blow-up of 2.
BatchShapes ==
    {[lk |-> 0, w |-> 1], [lk |-> 1, w |-> 1],
     [lk |-> 1, w |-> 2], [lk |-> 2, w |-> 1]}

MatChoices ==
    {[lk |-> sh.lk, w |-> sh.w, pts |-> pl, seed |-> 1] :
        sh \in BatchShapes, pl \in PointLists}

LogBlowups == {1, 2}

RECURSIVE SumSeq(_)
SumSeq(s) == IF s = <<>> THEN 0 ELSE s[1] + SumSeq(Tail(s))

\* The ways to cut n matrices into rounds of at least one matrix.
Compositions(n) ==
    UNION {{s \in [1 .. k -> 1 .. n] : SumSeq(s) = n} : k \in 0 .. n}

\* The flat list of matrices cut into rounds of the given sizes.
CutRounds(flat, sizes) ==
    [i \in 1 .. Len(sizes) |->
        SubSeq(flat, SumSeq(SubSeq(sizes, 1, i - 1)) + 1,
                     SumSeq(SubSeq(sizes, 1, i)))]

VARIABLES
    log_blowup,         \* self.fri.log_blowup()
    prover_data,        \* per round: the committed matrices
    points,             \* per round, per matrix: the requested points
    fri_queries,        \* the query indices prover::prove will return
    pc,                 \* position in open_multi_batches
    alpha,
    cached_alpha_pows,
    inv_denoms,         \* point -> inverse-denominator table
    all_opened_values,
    reduced_openings,   \* log-height -> Option<accumulator>
    num_reduced,        \* log-height -> columns consumed
    ri, mi, pi,         \* round, matrix and point being processed
    prover_input,       \* the accumulators prover::prove received
    query_indices,
    input_openings,
    qi, oi,             \* query index and round being opened
    returned,           \* Option<(opened values, proof)>
    zero_denom,         \* a zero denominator was handed to the inversion
    calls,              \* history of external calls and accumulator updates
    contribs,           \* history of the (matrix, point) contributions
    claimed_values,     \* verify_multi_batches: the `values` argument
    verify_result

vars == <<log_blowup, prover_data, points, fri_queries, pc, alpha,
          cached_alpha_pows, inv_denoms, all_opened_values, reduced_openings,
          num_reduced, ri, mi, pi, prover_input, query_indices,
          input_openings, qi, oi, returned, zero_denom, calls, contribs,
          claimed_values, verify_result>>

inputs == <<log_blowup, prover_data, points, fri_queries>>

\* The state on entry to open_multi_batches.
Entry(b, rounds, qs) ==
    /\ log_blowup = b
    /\ prover_data =
        [i \in 1 .. Len(rounds) |->
            commit_batches(
                [m \in 1 .. Len(rounds[i]) |->
                    PolyTable(rounds[i][m].lk, rounds[i][m].w,
                              rounds[i][m].seed + i + 2 * m)], b)]
    /\ points =
        [i \in 1 .. Len(rounds) |->
            [m \in 1 .. Len(rounds[i]) |-> rounds[i][m].pts]]
    /\ fri_queries = qs
    /\ pc = "start"
    /\ alpha = 0
    /\ cached_alpha_pows = <<>>
    /\ inv_denoms = <<>>
    /\ all_opened_values = <<>>
    /\ reduced_openings = [h \in 0 .. NumLogHeights - 1 |-> None]
    /\ num_reduced = [h \in 0 .. NumLogHeights - 1 |-> 0]
    /\ ri = 0 /\ mi = 0 /\ pi = 0
    /\ prover_input = None
    /\ query_indices = <<>>
    /\ input_openings = <<>>
    /\ qi = 0 /\ oi = 0
    /\ returned = None
    /\ zero_denom = FALSE
    /\ calls = <<>>
    /\ contribs = <<>>
    /\ claimed_values = <<>>
    /\ verify_result = "none"

\* Calls over up to MaxMats matrices in any number of rounds.
InitBatches ==
    \E n \in 0 .. MaxMats :
    \E flat \in [1 .. n -> MatChoices] :
    \E sizes \in Compositions(n) :
        Entry(1, CutRounds(flat, sizes), [q \in 1 .. NumQueries |-> q % 2])

\* Calls that open one matrix at one point: every table shape up to
\* MaxLogDegree, several tables, both blow-up factors, every field element
\* as the point.
InitSingle ==
    \E lk \in 0 .. MaxLogDegree, w \in Widths, seed \in 0 .. MaxSeed,
       b \in LogBlowups, z \in F :
        /\ lk + b <= Field.two_adicity
        /\ Entry(b, <<<<[lk |-> lk, w |-> w, pts |-> <<z>>, seed |-> seed]>>>>,
              [q \in 1 .. NumQueries |-> q % 2])

\* Calls over rounds of one-column matrices, with every list of query
\* indices the proximity prover may return.
InitQueries ==
    \E n \in 1 .. MaxMats :
    \E sizes \in Compositions(n) :
    \E qs \in [1 .. NumQueries -> {0, 1}] :
        Entry(1, CutRounds([i \in 1 .. n |->
                     [lk |-> 0, w |-> 1, pts |-> <<1>>, seed |-> 0]], sizes), qs)

Init == InitBatches \/ InitSingle \/ InitQueries

\* ------------------------------------------------- open_multi_batches
\* The (round, matrix, point-position) triples the loops visit.
Requests ==
    UNION {UNION {{<<r, m, k>> : k \in 1 .. Len(points[r][m])} :
                m \in 1 .. ZipLen(get_matrices(prover_data[r]), points[r])} :
           r \in 1 .. Len(prover_data)}

MatAt(r, m) == get_matrices(prover_data[r])[m]

LogHeightAt(r, m) == log2_strict_usize(Height(MatAt(r, m)))

\* max_log_height_for_point: for each requested point, the largest
\* log-height among the matrices that request it.
max_log_height_for_point ==
    [z \in {points[q[1]][q[2]][q[3]] : q \in Requests} |->
        Max({LogHeightAt(q[1], q[2]) :
                q \in {x \in Requests : points[x[1]][x[2]][x[3]] = z}})]

\* Mutant of max_log_height_option: unwrap_or(0) in place of unwrap().
max_log_height_option_or_zero(mlh) ==
    IF DOMAIN mlh = {} THEN Some(0) ELSE Some(Max({mlh[z] : z \in DOMAIN mlh}))

\* *max_log_height_for_point.values().max(): None over the empty map.
max_log_height_option(mlh) ==
    IF DOMAIN mlh = {} THEN None ELSE Some(Max({mlh[z] : z \in DOMAIN mlh}))

\* Mutant of bitrev_subgroup: reverse_slice_index_bits left out.
bitrev_subgroup_natural(max_log_height) ==
    cyclic_subgroup_coset_known_order(
        two_adic_generator(max_log_height), coset_shift, Pow2(max_log_height))

\* The largest subgroup coset, in bit-reversed order.
bitrev_subgroup(max_log_height) ==
    reverse_slice_index_bits(
        cyclic_subgroup_coset_known_order(
            two_adic_generator(max_log_height), coset_shift,
            Pow2(max_log_height)))

\* The denominators x - z over the first 2^log_height entries.
denominators(subgroup, z, log_height) ==
    [i \in 1 .. Pow2(log_height) |-> FSub(subgroup[i], z)]

\* let alpha = challenger.sample(); cached_alpha_pows = vec![one]
SampleAlpha ==
    /\ pc = "start"
    /\ \E a \in Alphas : alpha' = a
    /\ cached_alpha_pows' = <<1>>
    /\ calls' = Append(calls, [op |-> "sample"])
    /\ pc' = "invert"
    /\ UNCHANGED <<inputs, inv_denoms, all_opened_values, reduced_openings,
                   num_reduced, ri, mi, pi, prover_input, query_indices,
                   input_openings, qi, oi, returned, zero_denom, contribs,
                   claimed_values, verify_result>>

\* The "invert denominators" block.  unwrap() of the maximum over no points
\* panics.  A zero denominator reaches batch_multiplicative_inverse unchecked:
\* the inversion either panics or returns the table Montgomery's trick yields
\* from a product without inverse.
InvertDenominators ==
    /\ pc = "invert"
    /\ LET mlh == max_log_height_for_point
           max_opt == max_log_height_option(mlh)
       IN  IF ~is_some(max_opt)
           THEN /\ pc' = "panicked"
                /\ UNCHANGED <<inv_denoms, zero_denom>>
           ELSE LET subgroup == bitrev_subgroup(max_opt[1])
                    dens == [z \in DOMAIN mlh |->
                                denominators(subgroup, z, mlh[z])]
                IN  IF \E z \in DOMAIN mlh : HasZero(dens[z])
                    THEN /\ zero_denom' = TRUE
                         /\ \E outcome \in {"panic", "value"} :
                              IF outcome = "panic"
                              THEN pc' = "panicked" /\ UNCHANGED inv_denoms
                              ELSE /\ pc' = "round"
                                   /\ inv_denoms' =
                                        [z \in DOMAIN mlh |->
                                            batch_multiplicative_inverse(dens[z])]
                    ELSE /\ pc' = "round"
                         /\ inv_denoms' =
                              [z \in DOMAIN mlh |->
                                  batch_multiplicative_inverse(dens[z])]
                         /\ UNCHANGED zero_denom
    /\ UNCHANGED <<inputs, alpha, cached_alpha_pows, all_opened_values,
                   reduced_openings, num_reduced, ri, mi, pi, prover_input,
                   query_indices, input_openings, qi, oi, returned, calls,
                   contribs, claimed_values, verify_result>>

\* Where the loops go once matrix m of round r is finished.
AfterMatrix(r, m) ==
    IF m < ZipLen(get_matrices(prover_data[r]), points[r])
    THEN "matrix" ELSE "round"

\* for (data, points) in prover_data_and_points: a new entry for the round.
BeginRound ==
    /\ pc = "round"
    /\ ri < Len(prover_data)
    /\ ri' = ri + 1
    /\ mi' = 0
    /\ all_opened_values' = Append(all_opened_values, <<>>)
    /\ pc' = IF ZipLen(get_matrices(prover_data[ri + 1]), points[ri + 1]) > 0
             THEN "matrix" ELSE "round"
    /\ UNCHANGED <<inputs, alpha, cached_alpha_pows, inv_denoms,
                   reduced_openings, num_reduced, pi, prover_input,
                   query_indices, input_openings, qi, oi, returned,
                   zero_denom, calls, contribs, claimed_values, verify_result>>

\* reduced_openings[log_height].get_or_insert_with(|| vec![zero; height])
get_or_insert_with(openings, log_height, height) ==
    IF is_some(openings[log_height]) THEN openings
    ELSE [openings EXCEPT ![log_height] = Some([r \in 1 .. height |-> 0])]

\* for (mat, points_for_mat) in izip!(mats, points): the accumulator of the
\* matrix's height is created, and a new entry for the matrix pushed.
BeginMatrix ==
    /\ pc = "matrix"
    /\ mi < ZipLen(get_matrices(prover_data[ri]), points[ri])
    /\ mi' = mi + 1
    /\ pi' = 0
    /\ reduced_openings' =
          get_or_insert_with(reduced_openings, LogHeightAt(ri, mi + 1),
                             Height(MatAt(ri, mi + 1)))
    /\ all_opened_values' =
          [all_opened_values EXCEPT ![ri] = Append(@, <<>>)]
    /\ pc' = IF Len(points[ri][mi + 1]) > 0 THEN "point"
             ELSE AfterMatrix(ri, mi + 1)
    /\ UNCHANGED <<inputs, alpha, cached_alpha_pows, inv_denoms, num_reduced,
                   ri, prover_input, query_indices, input_openings, qi, oi,
                   returned, zero_denom, calls, contribs, claimed_values,
                   verify_result>>

\* Mutant of low_coset_view: the rows left in committed (bit-reversed) order.
low_coset_view_committed_order(mat, fri_log_blowup) ==
    split_rows_first(mat, Height(mat) \div Pow2(fri_log_blowup))

\* The low coset handed to interpolate_coset: the first height >> log_blowup
\* rows of the committed matrix, back in natural order.
low_coset_view(mat, fri_log_blowup) ==
    BitReversedMatrixView(
        split_rows_first(mat, Height(mat) \div Pow2(fri_log_blowup)))

\* alpha.exp_u64(num_reduced[log_height])
alpha_pow_offset(a, reduced) == FExp(a, reduced)

\* sum of alpha_pow * -y over izip!(alpha_pows, &ys)
sum_alpha_pows_times_neg_y(alpha_pows, ys) ==
    FSum([j \in 1 .. Min2(Len(alpha_pows), Len(ys)) |->
            FMul(alpha_pows[j], FNeg(ys[j]))])

\* sum of alpha_pow * p_at_x over izip!(row, alpha_pows)
row_sum(row, alpha_pows) ==
    FSum([j \in 1 .. Min2(Len(row), Len(alpha_pows)) |->
            FMul(alpha_pows[j], row[j])])

\* Mutant of reduce_rows: the offset power alpha^num_reduced left out.
reduce_rows_no_offset(mat, acc, inv_denom, alpha_pows, offset_pow, neg_y) ==
    LET n == Min2(Height(mat), Min2(Len(acc), Len(inv_denom)))
    IN  [r \in 1 .. Len(acc) |->
            IF r <= n
            THEN FAdd(acc[r],
                      FMul(inv_denom[r],
                           FAdd(neg_y, row_sum(mat[r], alpha_pows))))
            ELSE acc[r]]

\* The "reduce rows" loop: izip! stops at the shortest of the matrix's rows,
\* the accumulator and the point's table.
reduce_rows(mat, acc, inv_denom, alpha_pows, offset_pow, neg_y) ==
    LET n == Min2(Height(mat), Min2(Len(acc), Len(inv_denom)))
    IN  [r \in 1 .. Len(acc) |->
            IF r <= n
            THEN FAdd(acc[r],
                      FMul(FMul(inv_denom[r], offset_pow),
                           FAdd(neg_y, row_sum(mat[r], alpha_pows))))
            ELSE acc[r]]

\* Mutant of advance_num_reduced: one per contribution instead of its width.
advance_num_reduced_by_one(reduced, log_height, width) ==
    [reduced EXCEPT ![log_height] = @ + 1]

\* num_reduced[log_height] += mat.width()
advance_num_reduced(reduced, log_height, width) ==
    [reduced EXCEPT ![log_height] = @ + width]

\* Mutant of push_opened_values: the new entry put first.
push_opened_values_front(opened, r, m, ys) ==
    [opened EXCEPT ![r][m] = <<ys>> \o @]

\* opened_values_for_mat.push(ys)
push_opened_values(opened, r, m, ys) ==
    [opened EXCEPT ![r][m] = Append(@, ys)]

\* for &point in points_for_mat: one (matrix, point) contribution.
ReducePoint ==
    /\ pc = "point"
    /\ pi < Len(points[ri][mi])
    /\ LET mat == MatAt(ri, mi)
           log_height == LogHeightAt(ri, mi)
           point == points[ri][mi][pi + 1]
           ys == interpolate_coset(low_coset_view(mat, log_blowup),
                                   coset_shift, point)
           cache == get_cached_powers(alpha, cached_alpha_pows, Width(mat))
           alpha_pows == SubSeq(cache, 1, Width(mat))
           offset_pow == alpha_pow_offset(alpha, num_reduced[log_height])
           neg_y == sum_alpha_pows_times_neg_y(alpha_pows, ys)
       IN  /\ cached_alpha_pows' = cache
           /\ reduced_openings' =
                [reduced_openings EXCEPT ![log_height] =
                    Some(reduce_rows(mat, @[1], inv_denoms[point],
                                     alpha_pows, offset_pow, neg_y))]
           /\ num_reduced' =
                advance_num_reduced(num_reduced, log_height, Width(mat))
           /\ all_opened_values' =
                push_opened_values(all_opened_values, ri, mi, ys)
           /\ calls' = Append(calls, [op |-> "reduce", round |-> ri,
                                      mat |-> mi, point |-> pi + 1])
           /\ contribs' = Append(contribs,
                [round |-> ri, mat |-> mi, pidx |-> pi + 1, point |-> point,
                 log_height |-> log_height, width |-> Width(mat),
                 offset |-> num_reduced[log_height],
                 before |-> num_reduced, after |-> num_reduced'])
    /\ pi' = pi + 1
    /\ pc' = IF pi + 1 < Len(points[ri][mi]) THEN "point"
             ELSE AfterMatrix(ri, mi)
    /\ UNCHANGED <<inputs, alpha, inv_denoms, ri, mi, prover_input,
                   query_indices, input_openings, qi, oi, returned,
                   zero_denom, claimed_values, verify_result>>

\* prover::prove(&self.fri, &reduced_openings, challenger)
Prove ==
    /\ pc = "round"
    /\ ri = Len(prover_data)
    /\ prover_input' = Some(reduced_openings)
    /\ query_indices' = fri_queries
    /\ input_openings' = <<>>
    /\ qi' = 1
    /\ oi' = 1
    /\ calls' = Append(calls, [op |-> "prove"])
    /\ pc' = "open"
    /\ UNCHANGED <<inputs, alpha, cached_alpha_pows, inv_denoms,
                   all_opened_values, reduced_openings, num_reduced, ri, mi,
                   pi, returned, zero_denom, contribs, claimed_values,
                   verify_result>>

\* Mutant of next_opening: only the first round is opened for each query.
next_opening_first_round_only(q, o, n_rounds) == <<q + 1, 1>>

\* The position after opening round o for query q: rounds are the inner loop.
next_opening(q, o, n_rounds) ==
    IF o < n_rounds THEN <<q, o + 1>> ELSE <<q + 1, 1>>

\* self.mmcs.open_batch(index, data) for one query index and one round.
OpenBatch ==
    /\ pc = "open"
    /\ qi <= Len(query_indices)
    /\ LET opening == open_batch(query_indices[qi], prover_data[oi])
           nxt == next_opening(qi, oi, Len(prover_data))
       IN  /\ input_openings' =
                IF Len(input_openings) < qi
                THEN Append(input_openings, <<opening>>)
                ELSE [input_openings EXCEPT ![qi] = Append(@, opening)]
           /\ qi' = nxt[1]
           /\ oi' = nxt[2]
    /\ calls' = Append(calls, [op |-> "open_batch",
                               index |-> query_indices[qi], round |-> oi])
    /\ UNCHANGED <<inputs, pc, alpha, cached_alpha_pows, inv_denoms,
                   all_opened_values, reduced_openings, num_reduced, ri, mi,
                   pi, prover_input, query_indices, returned, zero_denom,
                   contribs, claimed_values, verify_result>>

\* (all_opened_values, TwoAdicFriPcsProof { fri_proof, input_openings })
Return ==
    /\ pc = "open"
    /\ qi > Len(query_indices)
    /\ returned' = Some([opened_values |-> all_opened_values,
                         proof |-> [fri_proof |-> prover_input[1],
                                    input_openings |-> input_openings]])
    /\ pc' = "done"
    /\ UNCHANGED <<inputs, alpha, cached_alpha_pows, inv_denoms,
                   all_opened_values, reduced_openings, num_reduced, ri, mi,
                   pi, prover_input, query_indices, input_openings, qi, oi,
                   zero_denom, calls, contribs, claimed_values, verify_result>>

\* ----------------------------------------------- verify_multi_batches
\* The body of verify_multi_batches: Ok(()) whatever it is given.
verify_multi_batches(commits_and_points, dims, values, proof) == "Ok"

\* Opened values with every claimed evaluation changed.
TamperValues(values) ==
    [r \in 1 .. Len(values) |->
        [m \in 1 .. Len(values[r]) |->
            [k \in 1 .. Len(values[r][m]) |->
                [j \in 1 .. Len(values[r][m][k]) |->
                    FAdd(values[r][m][k][j], 1)]]]]

Dims == [r \in 1 .. Len(prover_data) |->
            [m \in 1 .. Len(prover_data[r]) |->
                [width |-> Width(prover_data[r][m]),
                 height |-> Height(prover_data[r][m])]]]

\* The verifier is handed the prover's output, or claimed values that differ
\* from it.
Verify ==
    /\ pc = "done"
    /\ verify_result = "none"
    /\ \E values \in {returned[1].opened_values,
                      TamperValues(returned[1].opened_values)} :
          /\ claimed_values' = values
          /\ verify_result' =
                verify_multi_batches(<<prover_data, points>>, Dims, values,
                                     returned[1].proof)
    /\ UNCHANGED <<inputs, pc, alpha, cached_alpha_pows, inv_denoms,
                   all_opened_values, reduced_openings, num_reduced, ri, mi,
                   pi, prover_input, query_indices, input_openings, qi, oi,
                   returned, zero_denom, calls, contribs>>

Next ==
    \/ SampleAlpha
    \/ InvertDenominators
    \/ BeginRound
    \/ BeginMatrix
    \/ ReducePoint
    \/ Prove
    \/ OpenBatch
    \/ Return
    \/ Verify

Spec == Init /\ [][Next]_vars

\* ------------------------------------------------ reference definitions
\* The bit-reversed coset of size 2^h, built at that size.
BitRevCoset == 
    [h \in 0 .. Field.two_adicity |->
        reverse_slice_index_bits(
            cyclic_subgroup_coset_known_order(
                two_adic_generator(h), coset_shift, Pow2(h)))]

\* z is an element of the commitment domain of log-height h.
InDomain(z, h) == \E i \in 1 .. Pow2(h) : BitRevCoset[h][i] = z

\* The committed sub-table of matrix (r, m): the first height / blow-up rows.
SubTable(r, m) ==
    SubSeq(MatAt(r, m), 1, Height(MatAt(r, m)) \div Pow2(log_blowup))

\* Column j of matrix (r, m) evaluated at z by naive Lagrange interpolation
\* through the sub-table's rows at the first elements of the bit-reversed
\* coset.
LagrangeOpening(r, m, j, z) ==
    LET sub == SubTable(r, m)
    IN  LagrangeEval(SubSeq(BitRevCoset[LogHeightAt(r, m)], 1, Len(sub)),
                     Column(sub, j), z)

\* The total column width of the contributions before the i-th at its height.
WidthBefore(i) ==
    SumSeq([j \in 1 .. i - 1 |->
        IF contribs[j].log_height = contribs[i].log_height
        THEN contribs[j].width ELSE 0])

\* The batched DEEP quotient of contribution i at row r.
DeepQuotient(i, r) ==
    LET c == contribs[i]
        x == BitRevCoset[c.log_height][r]
    IN  FSum([j \in 1 .. c.width |->
            FMul(FMul(FExp(alpha, WidthBefore(i) + j - 1),
                      FSub(MatAt(c.round, c.mat)[r][j],
                           all_opened_values[c.round][c.mat][c.pidx][j])),
                 FInv(FSub(x, c.point)))])

\* The requests in the order of the loops: round, matrix, point.
RECURSIVE SeqOfRequests(_)
SeqOfRequests(S) ==
    IF S = {} THEN <<>>
    ELSE LET q == CHOOSE x \in S : \A y \in S :
                     \/ x[1] < y[1]
                     \/ x[1] = y[1] /\ x[2] < y[2]
                     \/ x[1] = y[1] /\ x[2] = y[2] /\ x[3] <= y[3]
         IN  <<q>> \o SeqOfRequests(S \ {q})

\* The calls a run that returns makes, in order.
ExpectedCalls ==
    LET reqs == SeqOfRequests(Requests)
        n == Len(prover_data)
    IN  <<[op |-> "sample"]>>
        \o [i \in 1 .. Len(reqs) |->
               [op |-> "reduce", round |-> reqs[i][1], mat |-> reqs[i][2],
                point |-> reqs[i][3]]]
        \o <<[op |-> "prove"]>>
        \o [i \in 1 .. Len(fri_queries) * n |->
               [op |-> "open_batch",
                index |-> fri_queries[((i - 1) \div n) + 1],
                round |-> ((i - 1) % n) + 1]]

IsPrefix(s, t) == Len(s) <= Len(t) /\ s = SubSeq(t, 1, Len(s))

\* ----------------------------------------------------------------- claims

\* C1: verify_multi_batches never reports success when a claimed opened
\* value is inconsistent with the commitments: a result of Ok implies that
\* every claimed value is the evaluation of its committed column.
C1_VerifyNeverAcceptsInconsistent ==
    verify_result = "Ok" =>
        \A q \in Requests : \A j \in 1 .. Width(MatAt(q[1], q[2])) :
            ~InDomain(points[q[1]][q[2]][q[3]], LogHeightAt(q[1], q[2])) =>
                claimed_values[q[1]][q[2]][q[3]][j] =
                    LagrangeOpening(q[1], q[2], j, points[q[1]][q[2]][q[3]])

\* C2: once every round is processed (the accumulators are handed to the
\* proximity prover) and no denominator was zero, every accumulator entry
\* reduced_openings[h][r] of a height with contributions is the sum over the
\* contributions at h of alpha^(offset + j) (table[r][j] - y_j) / (x_r - z).
C2_BatchedDeepQuotient ==
    (is_some(prover_input) /\ ~zero_denom) =>
        \A h \in {contribs[i].log_height : i \in 1 .. Len(contribs)} :
            /\ is_some(reduced_openings[h])
            /\ Len(reduced_openings[h][1]) = Pow2(h)
            /\ \A r \in 1 .. Pow2(h) :
                  reduced_openings[h][1][r] =
                      FSum([i \in 1 .. Len(contribs) |->
                          IF contribs[i].log_height = h
                          THEN DeepQuotient(i, r) ELSE 0])

C2_Witness ==
    /\ pc = "done"
    /\ ~zero_denom
    /\ Len(contribs) = 3
    /\ contribs[1].log_height = contribs[3].log_height
    /\ contribs[1].log_height = contribs[2].log_height
    /\ contribs[1].width = 2
    /\ contribs[3].mat # contribs[1].mat

\* C3: every opened value for a point outside the commitment domain of its
\* matrix is the value at that point of the polynomial interpolating the
\* column over the committed sub-table, computed by naive Lagrange
\* interpolation.
C3_OpenedValueIsLagrange ==
    \A i \in 1 .. Len(contribs) :
        LET c == contribs[i]
        IN  ~InDomain(c.point, c.log_height) =>
                /\ Len(all_opened_values[c.round][c.mat][c.pidx]) = c.width
                /\ \A j \in 1 .. c.width :
                      all_opened_values[c.round][c.mat][c.pidx][j] =
                          LagrangeOpening(c.round, c.mat, j, c.point)

C3_Witness ==
    /\ pc = "done"
    /\ Len(prover_data) = 1
    /\ Len(prover_data[1]) = 1
    /\ Height(prover_data[1][1]) = 8
    /\ Width(prover_data[1][1]) = 2
    /\ log_blowup = 1
    /\ Len(contribs) = 1
    /\ ~InDomain(contribs[1].point, 3)
    /\ contribs[1].point # 0

\* C4: a requested point equal to an element of the coset used for it is
\* rejected: once a zero denominator has been met, the call has aborted and
\* nothing else has run.
C4_DomainPointRejected ==
    zero_denom =>
        /\ pc = "panicked"
        /\ ~is_some(prover_input)
        /\ ~is_some(returned)

\* C5: the returned opened values are nested round -> matrix -> point ->
\* column in input order, value j of the entry for a point being the
\* evaluation of column j of that matrix at that point.
C5_OpenedValuesNesting ==
    pc = "done" =>
        LET ov == returned[1].opened_values
        IN  /\ Len(ov) = Len(prover_data)
            /\ \A r \in 1 .. Len(prover_data) :
                  /\ Len(ov[r]) = Len(get_matrices(prover_data[r]))
                  /\ \A m \in 1 .. Len(prover_data[r]) :
                        /\ Len(ov[r][m]) = Len(points[r][m])
                        /\ \A k \in 1 .. Len(points[r][m]) :
                              /\ Len(ov[r][m][k]) = Width(MatAt(r, m))
                              /\ \A j \in 1 .. Width(MatAt(r, m)) :
                                    ~InDomain(points[r][m][k], LogHeightAt(r, m))
                                    => ov[r][m][k][j] =
                                         LagrangeOpening(r, m, j, points[r][m][k])

C5_Witness ==
    /\ pc = "done"
    /\ ~zero_denom
    /\ Len(prover_data) = 2
    /\ Len(points[1][1]) = 2
    /\ Len(points[2][1]) = 1
    /\ Width(prover_data[1][1]) = 2
    /\ returned[1].opened_values[1][1][1] # returned[1].opened_values[1][1][2]

\* C6: the external calls happen in order: alpha is sampled once, before any
\* accumulator update; the proximity prover is invoked once, after every
\* matrix of every round is reduced; then rows are opened once per (query
\* index, round), rounds in input order inside each query index.  The calls
\* made so far are always a prefix of that sequence, and a run that returns
\* has made all of it.
C6_CallOrder ==
    /\ IsPrefix(calls, ExpectedCalls)
    /\ pc # "start" => Len(calls) >= 1
    /\ is_some(prover_input) => Len(calls) >= Cardinality(Requests) + 2
    /\ pc = "done" => calls = ExpectedCalls

C6_Witness ==
    /\ pc = "done"
    /\ Len(prover_data) = 2
    /\ Len(query_indices) = 2
    /\ query_indices[1] # query_indices[2]
    /\ Len(calls) = 8

\* C7: the offset of every contribution is the total column width of the
\* earlier contributions at its height, the alpha-power ranges of two
\* contributions at one height are disjoint, and a contribution advances
\* num_reduced at its own height by its width and at no other height.
C7_OffsetsDisjoint ==
    /\ \A i \in 1 .. Len(contribs) :
          LET c == contribs[i]
          IN  /\ c.offset = WidthBefore(i)
              /\ c.before = (IF i = 1 THEN [h \in 0 .. NumLogHeights - 1 |-> 0]
                             ELSE contribs[i - 1].after)
              /\ \A h \in 0 .. NumLogHeights - 1 :
                    c.after[h] = IF h = c.log_height
                                 THEN c.before[h] + c.width ELSE c.before[h]
    /\ \A i, k \in 1 .. Len(contribs) :
          (i < k /\ contribs[i].log_height = contribs[k].log_height) =>
              contribs[i].offset + contribs[i].width <= contribs[k].offset
    /\ num_reduced = (IF contribs = <<>> THEN [h \in 0 .. NumLogHeights - 1 |-> 0]
                      ELSE contribs[Len(contribs)].after)

C7_Witness ==
    /\ Len(contribs) = 3
    /\ contribs[1].point = contribs[3].point
    /\ contribs[1].log_height = contribs[3].log_height
    /\ contribs[1].mat = contribs[2].mat
    /\ contribs[1].mat # contribs[3].mat
    /\ contribs[1].width = 2
    /\ contribs[3].offset = 4

\* C8: for every requested point z, every matrix of log-height h requesting
\* it and every row r < 2^h, entry r of z's table is 1 / (x - z) for x the
\* r-th element of the bit-reversed coset of size 2^h.
C8_TablesTruncate ==
    (pc \notin {"start", "invert", "panicked"} /\ ~zero_denom) =>
        \A q \in Requests :
            LET z == points[q[1]][q[2]][q[3]]
                h == LogHeightAt(q[1], q[2])
            IN  /\ z \in DOMAIN inv_denoms
                /\ Len(inv_denoms[z]) >= Pow2(h)
                /\ \A r \in 1 .. Pow2(h) :
                      inv_denoms[z][r] = FInv(FSub(BitRevCoset[h][r], z))

C8_Witness ==
    /\ pc = "round"
    /\ ~zero_denom
    /\ \E q1, q2 \in Requests :
          /\ points[q1[1]][q1[2]][q1[3]] = points[q2[1]][q2[2]][q2[3]]
          /\ LogHeightAt(q1[1], q1[2]) = 1
          /\ LogHeightAt(q2[1], q2[2]) = 3

\* C9: when the proximity prover is called, reduced_openings[h] is present
\* exactly when a (matrix, point) pair of log-height h was folded into it.
C9_AccumulatorIffContribution ==
    is_some(prover_input) =>
        \A h \in 0 .. NumLogHeights - 1 :
            is_some(prover_input[1][h]) <=>
                \E i \in 1 .. Len(contribs) : contribs[i].log_height = h

\* C10: with no opening point requested at all the call aborts in the
\* denominator precomputation: after alpha is sampled, before any
\* accumulator exists, before the proximity prover and before any row is
\* opened, and without returning.
C10_NoPointsAborts ==
    Requests = {} =>
        /\ pc \in {"start", "invert", "panicked"}
        /\ pc = "panicked" => calls = <<[op |-> "sample"]>>
        /\ \A h \in 0 .. NumLogHeights - 1 : ~is_some(reduced_openings[h])
        /\ all_opened_values = <<>>
        /\ ~is_some(prover_input)
        /\ input_openings = <<>>
        /\ ~is_some(returned)

C10_Witness ==
    /\ pc = "panicked"
    /\ Requests = {}
    /\ Len(prover_data) = 2
    /\ calls = <<[op |-> "sample"]>>

====
